---- MODULE Spec2Model ----
(***************************************************************************)
(* Model of mtprothon/type_language/primitives.py: the TL primitive codecs *)
(* Int/Long/Int128/Int256, Double, Bool, Bytes, String and Vector.         *)
(*                                                                         *)
(* Representation of the Python values:                                    *)
(*   bytes   a sequence over 0..255                                        *)
(*   int     [neg, mag]: sign and magnitude, the magnitude a little-endian *)
(*           sequence of base-256 digits without leading zero digit (the   *)
(*           arbitrary-precision int; zero is [neg |-> FALSE, mag |-> <<>>])*)
(*   float   [sign, exp, frac]: the IEEE-754 binary64 fields, frac as 7    *)
(*           little-endian base-256 digits (52 bits, the last digit < 16)  *)
(*   str     a sequence of code points                                     *)
(*   BytesIO [buf, pos]                                                    *)
(*   object  [cls, ty, value]: class, Python type of .value, and .value    *)
(***************************************************************************)
EXTENDS Integers, Sequences, FiniteSets, TLC

VARIABLES self, orig, wire, first, calls, data, ret

vars == <<self, orig, wire, first, calls, data, ret>>

(* ------------------------------ bounds --------------------------------- *)

\* serialize calls made on one object
MaxCalls == 2
\* payload lengths 0..MaxPayload are all enumerated (next to the boundary lengths)
MaxPayload == 5
\* str lengths 0..MaxStrLen
MaxStrLen == 2
\* list lengths 0..MaxVecLen
MaxVecLen == 3
\* a cursor is cut to its first 0..MaxCut bytes, or loses its last 1..MaxCut bytes
MaxCut == 3
\* Vector.deserialize is run for count fields up to MaxCount
MaxCount == 3

(* --------------------------- bytes and ints ---------------------------- *)

Min(a, b) == IF a < b THEN a ELSE b

Zeros(n) == [i \in 1..n |-> 0]

Reverse(s) == [i \in 1..Len(s) |-> s[Len(s) + 1 - i]]

\* the digits of a magnitude without its leading (most significant) zeros
RECURSIVE Normalize(_)
Normalize(mag) ==
    IF mag = <<>> THEN <<>>
    ELSE IF mag[Len(mag)] = 0 THEN Normalize(SubSeq(mag, 1, Len(mag) - 1))
    ELSE mag

\* two's complement negation of a little-endian byte string: invert every
\* byte and add one, the carry running from the least significant byte
RECURSIVE NegateCarry(_, _)
NegateCarry(bs, carry) ==
    IF bs = <<>> THEN <<>>
    ELSE LET d == (255 - Head(bs)) + carry
         IN  <<d % 256>> \o NegateCarry(Tail(bs), d \div 256)

Negate(bs) == NegateCarry(bs, 1)

\* a non-negative machine-sized number as a Python int, and back
RECURSIVE NatDigits(_)
NatDigits(n) == IF n = 0 THEN <<>> ELSE <<n % 256>> \o NatDigits(n \div 256)

PyInt(n) == [neg |-> FALSE, mag |-> NatDigits(n)]

RECURSIVE DigitsNat(_)
DigitsNat(mag) == IF mag = <<>> THEN 0 ELSE Head(mag) + 256 * DigitsNat(Tail(mag))

\* an int literal written as its hexadecimal bytes, most significant first
Hex(bs) == [neg |-> FALSE, mag |-> Normalize(Reverse(bs))]

Ok(v) == [status |-> "ok", bytes |-> v]
Raise(e) == [status |-> e, bytes |-> <<>>]

\* int.to_bytes(length, byteorder="little", signed=signed), length >= 1
to_bytes(x, length, signed) ==
    IF x.neg /\ ~signed THEN Raise("OverflowError")
    ELSE IF Len(x.mag) > length THEN Raise("OverflowError")
    ELSE LET padded == x.mag \o Zeros(length - Len(x.mag))
             bs     == IF x.neg THEN Negate(padded) ELSE padded
             msb    == length > 0 /\ bs[length] >= 128
         IN  IF signed /\ (msb # x.neg) THEN Raise("OverflowError") ELSE Ok(bs)

\* int.from_bytes(bs, byteorder="little", signed=signed)
from_bytes(bs, signed) ==
    IF signed /\ bs # <<>> /\ bs[Len(bs)] >= 128
    THEN [neg |-> TRUE, mag |-> Normalize(Negate(bs))]
    ELSE [neg |-> FALSE, mag |-> Normalize(bs)]

\* BytesIO.read(n), n >= 0: at most n bytes, fewer when the buffer ends
read(d, n) ==
    LET end == Min(d.pos + n, Len(d.buf))
    IN  [bytes |-> SubSeq(d.buf, d.pos + 1, end), data |-> [d EXCEPT !.pos = end]]

(* ------------------------------- codecs -------------------------------- *)

\* outcome of a serialize call: status, the bytes returned, self afterwards
Out(status, bytes, obj) == [status |-> status, bytes |-> bytes, self |-> obj]

\* outcome of a deserialize call: status, the value returned, the cursor
\* afterwards, whether some read returned fewer bytes than it asked for, and
\* the number of element decodes made (Vector)
In(status, value, d, short) ==
    [status |-> status, value |-> value, data |-> d, short |-> short, invoked |-> 0]

IntClasses == {"Int", "Long", "Int128", "Int256"}

LENGTH == [Int |-> 4, Long |-> 8, Int128 |-> 16, Int256 |-> 32]

\* Int.serialize that does not pass its signed flag on
Int_serialize_unsigned(obj, signed) ==
    LET r == to_bytes(obj.value, LENGTH[obj.cls], FALSE)
    IN  Out(r.status, r.bytes, obj)

Int_serialize(obj, signed) ==
    LET r == to_bytes(obj.value, LENGTH[obj.cls], signed)
    IN  Out(r.status, r.bytes, obj)

Int_deserialize(cls, d, signed) ==
    LET r == read(d, LENGTH[cls])
    IN  In("ok", from_bytes(r.bytes, signed), r.data, Len(r.bytes) < LENGTH[cls])

\* struct.pack('<d', value)
pack_d(v) ==
    SubSeq(v.frac, 1, 6) \o <<(v.exp % 16) * 16 + v.frac[7], v.sign * 128 + v.exp \div 16>>

\* struct.unpack('<d', bs)[0]
unpack_d(bs) ==
    [sign |-> bs[8] \div 128,
     exp  |-> (bs[8] % 128) * 16 + bs[7] \div 16,
     frac |-> SubSeq(bs, 1, 6) \o <<bs[7] % 16>>]

Double_serialize(obj) == Out("ok", pack_d(obj.value), obj)

Double_deserialize(d) ==
    LET r == read(d, 8)
    IN  IF Len(r.bytes) # 8
        THEN In("struct.error", <<>>, r.data, TRUE)
        ELSE In("ok", unpack_d(r.bytes), r.data, FALSE)

BOOL_TRUE == Hex(<<153, 114, 117, 181>>)     \* 0x997275b5

BOOL_FALSE == Hex(<<188, 121, 151, 55>>)     \* 0xbc799737

Bool_serialize(obj) ==
    LET constructor_id == IF obj.value THEN BOOL_TRUE ELSE BOOL_FALSE
        r == Int_serialize([cls |-> "Int", ty |-> "int", value |-> constructor_id], FALSE)
    IN  Out(r.status, r.bytes, obj)

\* Bool.deserialize reading the constructor as a signed integer
Bool_deserialize_signed(d) ==
    LET r == Int_deserialize("Int", d, TRUE)
    IN  In("ok", r.value = BOOL_TRUE, r.data, r.short)

Bool_deserialize(d) ==
    LET r == Int_deserialize("Int", d, FALSE)
    IN  In("ok", r.value = BOOL_TRUE, r.data, r.short)

\* Bytes.serialize without the outer "% 4" of padding_needed
Bytes_serialize_pad4(obj) ==
    LET length == Len(obj.value)
        lenb   == to_bytes(PyInt(length), 3, FALSE)
        result == IF length <= 253 THEN <<length>> \o obj.value
                  ELSE <<254>> \o lenb.bytes \o obj.value
        padding_needed == 4 - (Len(result) % 4)
    IN  Out("ok", result \o Zeros(padding_needed), obj)

\* Bytes.serialize with the short form kept up to length 254
Bytes_serialize_254(obj) ==
    LET length == Len(obj.value)
        lenb   == to_bytes(PyInt(length), 3, FALSE)
        result == IF length <= 254 THEN <<length>> \o obj.value
                  ELSE <<254>> \o lenb.bytes \o obj.value
        padding_needed == (4 - (Len(result) % 4)) % 4
    IN  Out("ok", result \o Zeros(padding_needed), obj)

Bytes_serialize(obj) ==
    LET length == Len(obj.value)
        lenb   == to_bytes(PyInt(length), 3, FALSE)
        result == IF length <= 253 THEN <<length>> \o obj.value
                  ELSE <<254>> \o lenb.bytes \o obj.value
        current_length == Len(result)
        padding_needed == (4 - (current_length % 4)) % 4
    IN  IF length > 253 /\ lenb.status # "ok" THEN Out(lenb.status, <<>>, obj)
        ELSE Out("ok", result \o Zeros(padding_needed), obj)

\* Bytes.deserialize that also reads the padding up to the 4-byte boundary
Bytes_deserialize_aligned(d) ==
    LET r1 == read(d, 1)
        first_byte == DigitsNat(from_bytes(r1.bytes, FALSE).mag)
        r2 == read(r1.data, 3)
        length == IF first_byte <= 253 THEN first_byte
                  ELSE DigitsNat(from_bytes(r2.bytes, FALSE).mag)
        d2 == IF first_byte <= 253 THEN r1.data ELSE r2.data
        r3 == read(d2, length)
        r4 == read(r3.data, (4 - ((r3.data.pos - d.pos) % 4)) % 4)
    IN  In("ok", r3.bytes, r4.data, Len(r3.bytes) < length)

Bytes_deserialize(d) ==
    LET r1 == read(d, 1)
        first_byte == DigitsNat(from_bytes(r1.bytes, FALSE).mag)
        r2 == read(r1.data, 3)
        length == IF first_byte <= 253 THEN first_byte
                  ELSE DigitsNat(from_bytes(r2.bytes, FALSE).mag)
        d2 == IF first_byte <= 253 THEN r1.data ELSE r2.data
        r3 == read(d2, length)
    IN  In("ok", r3.bytes, r3.data,
           \/ Len(r1.bytes) < 1
           \/ first_byte > 253 /\ Len(r2.bytes) < 3
           \/ Len(r3.bytes) < length)

\* str.encode("utf-8") of one code point
utf8_char(cp) ==
    IF cp < 128 THEN <<cp>>
    ELSE IF cp < 2048 THEN <<192 + cp \div 64, 128 + (cp % 64)>>
    ELSE IF cp < 65536
         THEN <<224 + cp \div 4096, 128 + ((cp \div 64) % 64), 128 + (cp % 64)>>
    ELSE <<240 + cp \div 262144, 128 + ((cp \div 4096) % 64),
           128 + ((cp \div 64) % 64), 128 + (cp % 64)>>

IsSurrogate(cp) == cp >= 55296 /\ cp <= 57343

RECURSIVE utf8_concat(_)
utf8_concat(s) == IF s = <<>> THEN <<>> ELSE utf8_char(Head(s)) \o utf8_concat(Tail(s))

\* str.encode("utf-8"): lone surrogates cannot be encoded
encode(s) ==
    IF \E i \in 1..Len(s) : IsSurrogate(s[i]) THEN Raise("UnicodeEncodeError")
    ELSE Ok(utf8_concat(s))

\* number of bytes of the sequence a lead byte announces, 0 for an invalid lead
utf8_need(b) ==
    IF b < 128 THEN 1
    ELSE IF b >= 194 /\ b <= 223 THEN 2
    ELSE IF b >= 224 /\ b <= 239 THEN 3
    ELSE IF b >= 240 /\ b <= 244 THEN 4
    ELSE 0

\* whether c may be the k-th byte (k >= 2) of a sequence led by b
utf8_cont(b, k, c) ==
    IF k = 2 /\ b = 224 THEN c >= 160 /\ c <= 191
    ELSE IF k = 2 /\ b = 237 THEN c >= 128 /\ c <= 159
    ELSE IF k = 2 /\ b = 240 THEN c >= 144 /\ c <= 191
    ELSE IF k = 2 /\ b = 244 THEN c >= 128 /\ c <= 143
    ELSE c >= 128 /\ c <= 191

\* length of the longest well-formed prefix of the sequence starting at bs[1]
RECURSIVE utf8_prefix(_, _, _)
utf8_prefix(bs, need, k) ==
    IF k > need \/ k > Len(bs) THEN k - 1
    ELSE IF utf8_cont(bs[1], k, bs[k]) THEN utf8_prefix(bs, need, k + 1)
    ELSE k - 1

utf8_cp(bs, need) ==
    IF need = 1 THEN bs[1]
    ELSE IF need = 2 THEN (bs[1] - 192) * 64 + (bs[2] - 128)
    ELSE IF need = 3 THEN (bs[1] - 224) * 4096 + (bs[2] - 128) * 64 + (bs[3] - 128)
    ELSE (bs[1] - 240) * 262144 + (bs[2] - 128) * 4096 + (bs[3] - 128) * 64 + (bs[4] - 128)

IsCont(c) == c >= 128 /\ c <= 191

\* the bytes (at most 4) a sequence starting at position i can take
utf8_at(bs, i) == SubSeq(bs, i, Min(Len(bs), i + 3))

\* number of bytes the decoder takes at a position where it starts a sequence:
\* the well-formed prefix, or the single byte that cannot lead one
utf8_taken(bs, i) ==
    LET need == utf8_need(bs[i])
    IN  IF need = 0 THEN 1 ELSE utf8_prefix(utf8_at(bs, i), need, 2)

\* The decoder starts a sequence at i unless bs[i] is a continuation byte
\* taken by the sequence of the nearest lead byte before it (only
\* continuation bytes are ever taken after a lead).
utf8_start(bs, i) ==
    \/ ~IsCont(bs[i])
    \/ ~\E j \in 1..(i - 1) :
          /\ i - j <= 3
          /\ ~IsCont(bs[j])
          /\ \A m \in (j + 1)..(i - 1) : IsCont(bs[m])
          /\ j + utf8_taken(bs, j) > i

\* bytes.decode(errors="replace"): a well-formed sequence gives its code
\* point, an ill-formed or cut one gives U+FFFD
decode(bs) ==
    LET starts == SelectSeq([i \in 1..Len(bs) |-> i], LAMBDA i : utf8_start(bs, i))
    IN  [n \in 1..Len(starts) |->
            LET i    == starts[n]
                need == utf8_need(bs[i])
            IN  IF need # 0 /\ utf8_taken(bs, i) = need
                THEN utf8_cp(utf8_at(bs, i), need) ELSE 65533]

String_serialize(obj) ==
    IF obj.ty # "str" THEN Out("AttributeError", <<>>, obj)
    ELSE LET e == encode(obj.value)
         IN  IF e.status # "ok" THEN Out(e.status, <<>>, obj)
             ELSE LET assigned == [obj EXCEPT !.ty = "bytes", !.value = e.bytes]
                  IN  Bytes_serialize(assigned)

String_deserialize(d) ==
    LET r == Bytes_deserialize(d)
    IN  [r EXCEPT !.value = decode(r.value)]

Vector_ID == Hex(<<28, 181, 196, 21>>)       \* 0x1CB5C415

\* item.serialize(): the method of the item's class, with its default arguments
Item_serialize(obj) ==
    CASE obj.cls \in IntClasses -> Int_serialize(obj, TRUE)
      [] obj.cls = "Double"     -> Double_serialize(obj)
      [] obj.cls = "Bool"       -> Bool_serialize(obj)
      [] obj.cls = "Bytes"      -> Bytes_serialize(obj)
      [] obj.cls = "String"     -> String_serialize(obj)

\* the loop of Vector.serialize from item i on; an exception leaves the loop
RECURSIVE Vector_items(_, _, _)
Vector_items(items, i, result) ==
    IF i > Len(items) THEN Out("ok", result, items)
    ELSE LET r == Item_serialize(items[i])
             after == [items EXCEPT ![i] = r.self]
         IN  IF r.status # "ok" THEN Out(r.status, <<>>, after)
             ELSE Vector_items(after, i + 1, result \o r.bytes)

Vector_serialize(obj) ==
    LET id == to_bytes(Vector_ID, 4, TRUE)
        n  == to_bytes(PyInt(Len(obj.value)), 4, TRUE)
        r  == Vector_items(obj.value, 1, id.bytes \o n.bytes)
    IN  Out(r.status, r.bytes, [obj EXCEPT !.value = r.self])

\* type.deserialize(data): the classmethod of the element type, default arguments
Item_deserialize(type, d) ==
    CASE type \in IntClasses -> Int_deserialize(type, d, TRUE)
      [] type = "Double"     -> Double_deserialize(d)
      [] type = "Bool"       -> Bool_deserialize(d)
      [] type = "Bytes"      -> Bytes_deserialize(d)
      [] type = "String"     -> String_deserialize(d)

\* the count Vector.deserialize reads, after the constructor
Vector_count(d) == Int_deserialize("Int", Int_deserialize("Int", d, TRUE).data, TRUE)

\* len(range(count)) for a count the model can run
range(count) == IF count.neg THEN 0 ELSE DigitsNat(count.mag)

\* the loop of Vector.deserialize putting each item in front of the list
RECURSIVE Vector_loop_rev(_, _, _, _, _)
Vector_loop_rev(type, d, left, items, short) ==
    IF left = 0 THEN [In("ok", items, d, short) EXCEPT !.invoked = Len(items)]
    ELSE LET r == Item_deserialize(type, d)
         IN  IF r.status # "ok"
             THEN [In(r.status, <<>>, r.data, TRUE) EXCEPT !.invoked = Len(items) + 1]
             ELSE Vector_loop_rev(type, r.data, left - 1, <<r.value>> \o items,
                                  short \/ r.short)

\* the loop of Vector.deserialize with `left` iterations to go
RECURSIVE Vector_loop(_, _, _, _, _)
Vector_loop(type, d, left, items, short) ==
    IF left = 0 THEN [In("ok", items, d, short) EXCEPT !.invoked = Len(items)]
    ELSE LET r == Item_deserialize(type, d)
         IN  IF r.status # "ok"
             THEN [In(r.status, <<>>, r.data, TRUE) EXCEPT !.invoked = Len(items) + 1]
             ELSE Vector_loop(type, r.data, left - 1, Append(items, r.value),
                              short \/ r.short)

Vector_deserialize(d, type) ==
    LET constructor == Int_deserialize("Int", d, TRUE)
        count       == Int_deserialize("Int", constructor.data, TRUE)
    IN  Vector_loop(type, count.data, range(count.value), <<>>,
                    constructor.short \/ count.short)

(* ------------------------------- inputs -------------------------------- *)

Object(cls, ty, value) == [cls |-> cls, ty |-> ty, value |-> value]

Mag(len, top, fill) == [i \in 1..len |-> IF i = len THEN top ELSE fill]

\* magnitudes around the limits of a width of w bytes: 0, small ones, the
\* ones of exactly w digits (2^(8w-1) and 2^(8w)-1 among them) and of w+1
IntMags(w) ==
    {<<>>} \cup {Mag(len, top, fill) : len \in {1, 2, w, w + 1},
                                      top \in {1, 127, 128, 255}, fill \in {0, 255}}

IntValues(w) ==
    {[neg |-> FALSE, mag |-> m] : m \in IntMags(w)}
        \cup {[neg |-> TRUE, mag |-> m] : m \in IntMags(w) \ {<<>>}}

IntObjects == UNION {{Object(c, "int", v) : v \in IntValues(LENGTH[c])} : c \in IntClasses}

Float(sign, exp, top, fill) == [sign |-> sign, exp |-> exp, frac |-> Mag(7, top, fill)]

\* 0.0, -0.0, 1.0, -2.5, the largest finite, the smallest subnormal, inf, nan
DoubleValues ==
    {Float(0, 0, 0, 0), Float(1, 0, 0, 0), Float(0, 1023, 0, 0), Float(1, 1024, 4, 0),
     Float(0, 2046, 15, 255), [Float(0, 0, 0, 0) EXCEPT !.frac[1] = 1],
     Float(0, 2047, 0, 0), Float(0, 2047, 8, 0)}

DoubleObjects == {Object("Double", "float", v) : v \in DoubleValues}

BoolObjects == {Object("Bool", "bool", v) : v \in BOOLEAN}

Payload(n, seed) == [i \in 1..n |-> (seed * i) % 256]

BoundaryLens == {252, 253, 254, 255, 256, 257}

Payloads == {Payload(n, seed) : n \in (0..MaxPayload) \cup BoundaryLens, seed \in {0, 1, 255}}

BytesObjects == {Object("Bytes", "bytes", v) : v \in Payloads}

\* A, e-acute, euro sign, an emoji, a lone surrogate
CodePoints == {65, 233, 8364, 128512, 55296}

Strs(n) == UNION {[1..k -> CodePoints] : k \in 0..n}

StringObjects == {Object("String", "str", v) : v \in Strs(MaxStrLen)}

\* the items lists are drawn from, per class
Items(cls) ==
    CASE cls \in {"Int", "Long"} ->
            {Object(cls, "int", v) :
                v \in {[neg |-> FALSE, mag |-> <<1>>], [neg |-> TRUE, mag |-> <<1>>],
                       [neg |-> TRUE, mag |-> Mag(LENGTH[cls], 128, 0)],
                       [neg |-> FALSE, mag |-> Mag(LENGTH[cls], 128, 0)]}}
      [] cls \in {"Int128", "Int256"} ->
            {Object(cls, "int", v) :
                v \in {[neg |-> FALSE, mag |-> Mag(LENGTH[cls], 127, 255)],
                       [neg |-> TRUE, mag |-> <<2>>]}}
      [] cls = "Double" -> {Object(cls, "float", v) : v \in {Float(0, 1023, 0, 0), Float(1, 1024, 4, 0)}}
      [] cls = "Bool"   -> BoolObjects
      [] cls = "Bytes"  -> {Object(cls, "bytes", Payload(n, 1)) : n \in 0..3}
      [] cls = "String" -> {Object(cls, "str", v) : v \in {<<>>, <<65>>, <<233>>}}

ItemClasses == IntClasses \cup {"Double", "Bool", "Bytes", "String"}

Lists(cls) == UNION {[1..k -> Items(cls)] : k \in 0..MaxVecLen}

VectorObjects(cls) == {Object("Vector", "list", l) : l \in Lists(cls)}

\* buffers a caller hands over that no serialize call produced
Words ==
    {<<181, 117, 114, 153>>, <<55, 151, 121, 188>>, <<181, 117, 114, 25>>,
     <<180, 117, 114, 153>>, <<153, 114, 117, 181>>, <<0, 0, 0, 0>>, <<1, 0, 0, 0>>,
     <<255, 255, 255, 255>>, <<21, 196, 181, 28>>}

Counts == {<<0, 0, 0, 0>>, <<2, 0, 0, 0>>, <<3, 0, 0, 0>>, <<0, 0, 0, 128>>,
           <<2, 0, 0, 128>>, <<255, 255, 255, 255>>}

Tails == {<<>>, <<1, 97, 0, 0, 2, 98, 99, 0>>, <<7, 0, 0, 0, 8, 0, 0, 0, 9, 0, 0, 0>>}

RawBuffers ==
    Words
        \cup {h \o c \o t : h \in {<<21, 196, 181, 28>>, <<0, 0, 0, 0>>}, c \in Counts, t \in Tails}
        \cup {<<255, 2, 0, 0, 7, 8>>, <<254, 1, 0, 0, 9, 0, 0, 0>>, <<254, 0, 1>>,
              <<2, 195, 40, 0>>, <<3, 226, 130, 65>>}

(* ---------------------------- state machine ---------------------------- *)

NoObject == Object("None", "None", <<>>)

NoCall == [status |-> "none", bytes |-> <<>>, signed |-> FALSE]

NoData == [buf |-> <<>>, pos |-> 0, src |-> "none"]

NoRet ==
    [status |-> "none", cls |-> "None", signed |-> FALSE, type |-> "None",
     value |-> <<>>, short |-> FALSE, invoked |-> 0, start |-> 0]

\* BytesIO(b)
BytesIO(b, src) == [buf |-> b, pos |-> 0, src |-> src]

\* Either a freshly constructed object, nothing serialized yet, or a cursor
\* over a buffer received from elsewhere.
Init ==
    /\ \/ /\ \/ self \in IntObjects
             \/ self \in DoubleObjects
             \/ self \in BoolObjects
             \/ self \in BytesObjects
             \/ self \in StringObjects
             \/ \E cls \in ItemClasses : self \in VectorObjects(cls)
          /\ data = NoData
       \/ self = NoObject /\ data \in {BytesIO(b, "raw") : b \in RawBuffers}
    /\ orig = self
    /\ wire = NoCall
    /\ first = NoCall
    /\ calls = 0
    /\ ret = NoRet

\* self.serialize(...) returned or raised r
Serialized(r, signed) ==
    /\ calls < MaxCalls
    /\ self' = r.self
    /\ wire' = [status |-> r.status, bytes |-> r.bytes, signed |-> signed]
    /\ first' = IF calls = 0 THEN wire' ELSE first
    /\ calls' = calls + 1
    /\ data' = NoData
    /\ ret' = NoRet
    /\ UNCHANGED orig

IntSerialize(signed) ==
    /\ self.cls \in IntClasses
    /\ Serialized(Int_serialize(self, signed), signed)

DoubleSerialize ==
    /\ self.cls = "Double"
    /\ Serialized(Double_serialize(self), FALSE)

BoolSerialize ==
    /\ self.cls = "Bool"
    /\ Serialized(Bool_serialize(self), FALSE)

BytesSerialize ==
    /\ self.cls = "Bytes"
    /\ Serialized(Bytes_serialize(self), FALSE)

StringSerialize ==
    /\ self.cls = "String"
    /\ Serialized(String_serialize(self), FALSE)

VectorSerialize ==
    /\ self.cls = "Vector"
    /\ Serialized(Vector_serialize(self), FALSE)

\* the caller wraps the bytes serialize returned: data = BytesIO(wire)
OpenWire ==
    /\ wire.status = "ok"
    /\ data.src = "none"
    /\ data' = BytesIO(wire.bytes, "wire")
    /\ UNCHANGED <<self, orig, wire, first, calls, ret>>

\* the caller got only the first k bytes of them
OpenCut(k) ==
    /\ wire.status = "ok"
    /\ data.src = "none"
    /\ k < Len(wire.bytes)
    /\ k <= MaxCut \/ Len(wire.bytes) - k <= MaxCut
    /\ data' = BytesIO(SubSeq(wire.bytes, 1, k), "cut")
    /\ UNCHANGED <<self, orig, wire, first, calls, ret>>

\* cls.deserialize(data, ...) returned or raised r
Deserialized(r, cls, signed, type) ==
    /\ data.src # "none"
    /\ ret.status = "none"
    /\ ret' = [status |-> r.status, cls |-> cls, signed |-> signed, type |-> type,
               value |-> r.value, short |-> r.short, invoked |-> r.invoked,
               start |-> data.pos]
    /\ data' = r.data
    /\ UNCHANGED <<self, orig, wire, first, calls>>

IntDeserialize(cls, signed) ==
    Deserialized(Int_deserialize(cls, data, signed), cls, signed, "None")

DoubleDeserialize ==
    Deserialized(Double_deserialize(data), "Double", FALSE, "None")

BoolDeserialize ==
    Deserialized(Bool_deserialize(data), "Bool", FALSE, "None")

BytesDeserialize ==
    Deserialized(Bytes_deserialize(data), "Bytes", FALSE, "None")

StringDeserialize ==
    Deserialized(String_deserialize(data), "String", FALSE, "None")

VectorDeserialize(type) ==
    /\ range(Vector_count(data).value) <= MaxCount
    /\ Deserialized(Vector_deserialize(data, type), "Vector", FALSE, type)

Next ==
    \/ \E signed \in BOOLEAN : IntSerialize(signed)
    \/ DoubleSerialize
    \/ BoolSerialize
    \/ BytesSerialize
    \/ StringSerialize
    \/ VectorSerialize
    \/ OpenWire
    \/ \E k \in 0..300 : OpenCut(k)
    \/ \E cls \in IntClasses, signed \in BOOLEAN : IntDeserialize(cls, signed)
    \/ DoubleDeserialize
    \/ BoolDeserialize
    \/ BytesDeserialize
    \/ StringDeserialize
    \/ \E type \in ItemClasses : VectorDeserialize(type)

Spec == Init /\ [][Next]_vars

(* ------------------------------- claims -------------------------------- *)

TRUE_BYTES == <<181, 117, 114, 153>>

FALSE_BYTES == <<55, 151, 121, 188>>

\* x lies in the range of a w-byte integer: -2^(8w-1) .. 2^(8w-1)-1 when
\* signed, 0 .. 2^(8w)-1 when not (stated on the magnitude's digits)
Representable(x, w, signed) ==
    IF ~signed THEN ~x.neg /\ Len(x.mag) <= w
    ELSE \/ Len(x.mag) < w
         \/ /\ Len(x.mag) = w
            /\ \/ x.mag[w] < 128
               \/ x.neg /\ x.mag[w] = 128 /\ \A i \in 1..(w - 1) : x.mag[i] = 0

PrefixLen(n) == IF n <= 253 THEN 1 ELSE 4

Padding(n) == (4 - ((PrefixLen(n) + n) % 4)) % 4

\* the list of a Vector object holds only items of class c
ListOf(obj, c) == obj.cls = "Vector" /\ \A i \in 1..Len(obj.value) : obj.value[i].cls = c

\* C1: an integer representable at its class's width under the signed flag
\* serializes to exactly LENGTH bytes, and deserializing those bytes with the
\* same class and flag returns the integer.
C1_IntRoundTrip ==
    /\ (self.cls \in IntClasses /\ wire.status # "none"
            /\ Representable(self.value, LENGTH[self.cls], wire.signed))
        => (wire.status = "ok" /\ Len(wire.bytes) = LENGTH[self.cls])
    /\ (self.cls \in IntClasses /\ data.src = "wire" /\ ret.status # "none"
            /\ ret.cls = self.cls /\ ret.signed = wire.signed)
        => (ret.status = "ok" /\ ret.value = self.value /\ data.pos = LENGTH[self.cls])

C1_Witness ==
    /\ self.cls = "Int256" /\ data.src = "wire" /\ ret.cls = "Int256"
    /\ wire.signed /\ ret.signed /\ self.value.neg
    /\ self.value.mag = Mag(32, 128, 0)
    /\ ret.value = self.value

\* C2: a deserialize call on a cursor with fewer bytes left than one of its
\* reads requires ends in an error and returns no value.
C2_TruncationRaises == (ret.status # "none" /\ ret.short) => ret.status # "ok"

\* C3: the output of Bytes.serialize has a length that is a multiple of 4;
\* the padding after prefix and payload is (4 - (prefix_len + n) mod 4) mod 4
\* bytes, at most 3, and every padding byte is zero.
C3_Padding ==
    (self.cls \in {"Bytes", "String"} /\ wire.status = "ok") =>
        LET n   == Len(self.value)
            end == PrefixLen(n) + n
        IN  /\ Len(wire.bytes) % 4 = 0
            /\ Len(wire.bytes) - end = Padding(n)
            /\ Len(wire.bytes) - end <= 3
            /\ \A i \in (end + 1)..Len(wire.bytes) : wire.bytes[i] = 0

C3_Witness ==
    /\ self.cls = "Bytes" /\ wire.status = "ok"
    /\ Len(self.value) = 253 /\ Len(wire.bytes) = 256
    /\ wire.bytes[255] = 0 /\ wire.bytes[256] = 0

\* C4: Bytes.serialize of a payload of length n emits one prefix byte n and
\* the payload when n <= 253, and 0xFE, n as 3 little-endian bytes and the
\* payload when n >= 254.
C4_Prefix ==
    (self.cls = "Bytes" /\ wire.status # "none") =>
        LET n == Len(self.value)
        IN  /\ wire.status = "ok"
            /\ n <= 253 =>
                /\ wire.bytes[1] = n
                /\ SubSeq(wire.bytes, 2, n + 1) = self.value
            /\ n >= 254 =>
                /\ wire.bytes[1] = 254
                /\ wire.bytes[2] = n % 256
                /\ wire.bytes[3] = (n \div 256) % 256
                /\ wire.bytes[4] = n \div 65536
                /\ SubSeq(wire.bytes, 5, n + 4) = self.value

C4_Witness ==
    /\ self.cls = "Bytes" /\ wire.status = "ok" /\ Len(self.value) = 256
    /\ SubSeq(wire.bytes, 1, 4) = <<254, 0, 1, 0>>

\* C5: Bool.deserialize of a 4-byte value returns true exactly for
\* 0x997275b5 and false, not an error, for every other value; Bool.serialize
\* emits 0x997275b5 for true and 0xbc799737 for false; a bool round-trips.
C5_Bool ==
    /\ (ret.cls = "Bool" /\ Len(data.buf) - ret.start >= 4) =>
        /\ ret.status = "ok"
        /\ ret.value = (SubSeq(data.buf, ret.start + 1, ret.start + 4) = TRUE_BYTES)
    /\ (self.cls = "Bool" /\ wire.status # "none") =>
        /\ wire.status = "ok"
        /\ wire.bytes = IF self.value THEN TRUE_BYTES ELSE FALSE_BYTES
    /\ (self.cls = "Bool" /\ data.src = "wire" /\ ret.cls = "Bool") =>
        ret.value = self.value

C5_Witness ==
    /\ ret.cls = "Bool" /\ ret.status = "ok" /\ data.src = "raw"
    /\ data.buf = <<181, 117, 114, 25>> /\ ret.value = FALSE

C7_SerializeRepeatable ==
    (calls >= 1 /\ first.status = "ok") =>
        /\ self = orig
        /\ wire.signed = first.signed => wire = first

\* C8: Bytes.deserialize at the start of Bytes.serialize(p) returns p and
\* advances the cursor by prefix_len + n; the bytes left unread are exactly
\* the zero padding.
C8_BytesDecode ==
    (self.cls = "Bytes" /\ data.src = "wire" /\ ret.cls = "Bytes") =>
        LET n == Len(self.value)
        IN  /\ ret.status = "ok"
            /\ ret.value = self.value
            /\ data.pos = ret.start + PrefixLen(n) + n
            /\ Len(data.buf) - data.pos = Padding(n)
            /\ \A i \in (data.pos + 1)..Len(data.buf) : data.buf[i] = 0

C8_Witness ==
    /\ self.cls = "Bytes" /\ data.src = "wire" /\ ret.cls = "Bytes"
    /\ Len(self.value) = 254 /\ data.pos = 258 /\ Len(data.buf) = 260
    /\ ret.value = self.value

\* C9: Vector.deserialize takes the 4-byte count field as unsigned and makes
\* exactly that many element decodes, also when its top bit is set.
C9_CountUnsigned ==
    (ret.cls = "Vector" /\ ret.status = "ok" /\ Len(data.buf) - ret.start >= 8) =>
        /\ to_bytes(PyInt(ret.invoked), 4, FALSE).bytes
               = SubSeq(data.buf, ret.start + 5, ret.start + 8)
        /\ Len(ret.value) = ret.invoked

\* C10: Vector.deserialize of Vector.serialize(s) with the Bytes (or String)
\* codec returns the byte strings (texts) of s, element for element.
C10_BytesVectorRoundTrip ==
    \A c \in {"Bytes", "String"} :
        (ListOf(self, c) /\ data.src = "wire" /\ ret.cls = "Vector" /\ ret.type = c) =>
            /\ ret.status = "ok"
            /\ Len(ret.value) = Len(orig.value)
            /\ \A i \in 1..Len(orig.value) : ret.value[i] = orig.value[i].value

====
